---- MODULE Spec2Model ----
(***************************************************************************)
(* Model of src/utils.py (class App): the blocklist aggregation            *)
(* (convert_white_domains, convert_to_domain_list, chunk_list) and the     *)
(* reconciliation of the result against the remote Cloudflare store        *)
(* (run, delete).                                                          *)
(*                                                                         *)
(* Text is a sequence of one-character strings.  A remote object name is   *)
(* a record [prefix, rest]: a list "<prefix> <i>" has rest = i, a policy   *)
(* "<prefix> Block Ads" has rest = "Block Ads".                            *)
(***************************************************************************)
EXTENDS Integers, Sequences, FiniteSets, TLC

\* ------------------------------------------------------------------------
\* Bounds of the model.

\* Stands for the 1000 entries per list of line 92, scaled down.
ChunkSize == 2

\* Stands for the ceiling of 300000 final domains of line 53, scaled down.
DomainLimit == 4

\* Identifiers the remote store can hand out (a fresh one always exists).
MaxIds == 8

\* Lines of a block list body given to convert_to_domain_list.
MaxLines == 3

\* Calls of convert_to_domain_list on one App object.
MaxCalls == 2

\* Largest chunk size given to chunk_list.
MaxChunk == 3

\* Library constant of Python's "idna" codec: a label has fewer than 64 bytes.
IdnaLabelLimit == 64

\* ------------------------------------------------------------------------
\* Characters and strings.

UpperCase ==
  <<"A","B","C","D","E","F","G","H","I","J","K","L","M",
    "N","O","P","Q","R","S","T","U","V","W","X","Y","Z">>

LowerCase ==
  <<"a","b","c","d","e","f","g","h","i","j","k","l","m",
    "n","o","p","q","r","s","t","u","v","w","x","y","z">>

Digits == <<"0","1","2","3","4","5","6","7","8","9">>

\* The characters of a canonical domain in code point order.
CodeOrder == <<"-", ".">> \o Digits \o LowerCase

Range(s) == { s[i] : i \in 1..Len(s) }

DigitChars == Range(Digits)

AlnumChars == Range(Digits) \cup Range(LowerCase) \cup Range(UpperCase)

HostChars ==
  Range(Digits) \cup {"a","b","c","d","e","f","A","B","C","D","E","F",":","."}

\* \d
IsDigit(c) == c \in DigitChars

\* [a-zA-Z0-9]
IsAlnum(c) == c \in AlnumChars

\* [0-9a-fA-F:.] of replace_pattern
IsHostChar(c) == c \in HostChars

\* \s, and the characters str.strip() removes
IsSpace(c) == c \in {" ", "\t", "\n", "\r"}

\* str.lower() on one character
LowerOf ==
  [c \in Range(UpperCase) |->
     LowerCase[CHOOSE i \in 1..Len(UpperCase) : UpperCase[i] = c]]

LowerChar(c) == IF c \in DOMAIN LowerOf THEN LowerOf[c] ELSE c

Lower(s) == [i \in 1..Len(s) |-> LowerChar(s[i])]

Drop(s, n) == SubSeq(s, n + 1, Len(s))

StartsWith(s, p) == Len(s) >= Len(p) /\ SubSeq(s, 1, Len(p)) = p

RECURSIVE LStrip(_)
LStrip(s) == IF s # <<>> /\ IsSpace(Head(s)) THEN LStrip(Tail(s)) ELSE s

RECURSIVE RStrip(_)
RStrip(s) ==
  IF s # <<>> /\ IsSpace(s[Len(s)]) THEN RStrip(SubSeq(s, 1, Len(s) - 1)) ELSE s

\* str.strip()
Strip(s) == RStrip(LStrip(s))

\* s.split(c)[0]: the text before the first c
RECURSIVE Before(_, _)
Before(s, c) ==
  IF s = <<>> \/ Head(s) = c THEN <<>> ELSE <<Head(s)>> \o Before(Tail(s), c)

\* s.replace(c, "")
Remove(s, c) == SelectSeq(s, LAMBDA x : x # c)

\* s.split(c)
RECURSIVE SplitAcc(_, _, _, _)
SplitAcc(s, c, cur, acc) ==
  IF s = <<>> THEN Append(acc, cur)
  ELSE IF Head(s) = c THEN SplitAcc(Tail(s), c, <<>>, Append(acc, cur))
  ELSE SplitAcc(Tail(s), c, Append(cur, Head(s)), acc)

Split(s, c) == SplitAcc(s, c, <<>>, <<>>)

\* c.join(parts)
RECURSIVE Join(_, _)
Join(parts, c) ==
  IF parts = <<>> THEN <<>>
  ELSE IF Len(parts) = 1 THEN parts[1]
  ELSE parts[1] \o <<c>> \o Join(Tail(parts), c)

\* "".join(texts)
RECURSIVE Concat(_)
Concat(texts) == IF texts = <<>> THEN <<>> ELSE Head(texts) \o Concat(Tail(texts))

\* str.splitlines(): breaks at \n, \r and \r\n, no empty last line
RECURSIVE SplitLinesAcc(_, _, _)
SplitLinesAcc(s, cur, acc) ==
  IF s = <<>> THEN (IF cur = <<>> THEN acc ELSE Append(acc, cur))
  ELSE IF Head(s) = "\r" /\ Len(s) >= 2 /\ s[2] = "\n"
       THEN SplitLinesAcc(Drop(s, 2), <<>>, Append(acc, cur))
  ELSE IF Head(s) \in {"\n", "\r"}
       THEN SplitLinesAcc(Tail(s), <<>>, Append(acc, cur))
  ELSE SplitLinesAcc(Tail(s), Append(cur, Head(s)), acc)

splitlines(s) == SplitLinesAcc(s, <<>>, <<>>)

\* Length of the longest prefix of s made of [0-9a-fA-F:.].
HostPrefixLen(s) ==
  CHOOSE n \in 0..Len(s) :
    /\ \A i \in 1..n : IsHostChar(s[i])
    /\ n = Len(s) \/ ~IsHostChar(s[n + 1])

\* Length of the longest prefix of s made of white space.
SpacePrefixLen(s) ==
  CHOOSE n \in 0..Len(s) :
    /\ \A i \in 1..n : IsSpace(s[i])
    /\ n = Len(s) \/ ~IsSpace(s[n + 1])

\* ------------------------------------------------------------------------
\* The patterns of lines 9-14.

\* replace_pattern with \s* in place of \s+: the run of [0-9a-fA-F:.] is
\* removed also when no white space follows it.
replace_pattern_sub_no_space(s) ==
  LET h == HostPrefixLen(s)
      w == SpacePrefixLen(Drop(s, h))
  IN  IF h >= 1 THEN Drop(s, h + w) ELSE s

\* replace_pattern.sub("", s, count=1).  The first alternative is a run of
\* [0-9a-fA-F:.] (which contains [0-9.]) followed by white space: the run
\* must end where the white space starts, so the match is the longest such
\* run and all the white space after it.  The second alternative is one of
\* the markers "||", "@@||", "*." and "*", tried in that order.
replace_pattern_sub(s) ==
  LET h == HostPrefixLen(s)
      w == SpacePrefixLen(Drop(s, h))
  IN  IF h >= 1 /\ w >= 1 THEN Drop(s, h + w)
      ELSE IF StartsWith(s, <<"|","|">>) THEN Drop(s, 2)
      ELSE IF StartsWith(s, <<"@","@","|","|">>) THEN Drop(s, 4)
      ELSE IF StartsWith(s, <<"*",".">>) THEN Drop(s, 2)
      ELSE IF StartsWith(s, <<"*">>) THEN Drop(s, 1)
      ELSE s

\* One label of domain_pattern: [a-zA-Z0-9] | [a-zA-Z0-9][a-zA-Z0-9\-]*[a-zA-Z0-9]
IsLabel(l) ==
  /\ l # <<>>
  /\ IsAlnum(l[1])
  /\ IsAlnum(l[Len(l)])
  /\ \A i \in 1..Len(l) : IsAlnum(l[i]) \/ l[i] = "-"

\* domain_pattern.match(s): label(\.label)* over the whole string
domain_pattern_match(s) ==
  LET labels == Split(s, ".") IN \A i \in 1..Len(labels) : IsLabel(labels[i])

\* ip_pattern.match(s): four groups of one to three digits
ip_pattern_match(s) ==
  LET groups == Split(s, ".")
  IN  /\ Len(groups) = 4
      /\ \A i \in 1..4 :
           /\ Len(groups[i]) \in 1..3
           /\ \A j \in 1..Len(groups[i]) : IsDigit(groups[i][j])

\* s.encode("idna") succeeds; on ASCII text the codec only checks the labels:
\* every label but the last is non-empty, and every label is shorter than 64.
idna_ok(s) ==
  \/ s = <<>>
  \/ LET labels == Split(s, ".")
     IN  /\ \A i \in 1..(Len(labels) - 1) : Len(labels[i]) > 0
         /\ \A i \in 1..Len(labels) : Len(labels[i]) < IdnaLabelLimit

\* Lines 132-145 (and 172-185): one line to a domain, or skipped.
normalize(line) ==
  IF line = <<>> \/ line[1] \in {"#", "!", "/"}
  THEN [ok |-> FALSE, domain |-> <<>>]
  ELSE LET linex  == Remove(Before(Before(Strip(Lower(line)), "#"), "^"), "\r")
           domain == replace_pattern_sub(linex)
       IN  IF ~idna_ok(domain) THEN [ok |-> FALSE, domain |-> <<>>]
           ELSE IF ~domain_pattern_match(domain) \/ ip_pattern_match(domain)
                THEN [ok |-> FALSE, domain |-> <<>>]
           ELSE [ok |-> TRUE, domain |-> domain]

\* ------------------------------------------------------------------------
\* sorted(): ascending by code point, a proper prefix first.

OrdOf ==
  [c \in Range(CodeOrder) |-> CHOOSE i \in 1..Len(CodeOrder) : CodeOrder[i] = c]

Ord(c) == OrdOf[c]

RECURSIVE StrLess(_, _)
StrLess(a, b) ==
  IF b = <<>> THEN FALSE
  ELSE IF a = <<>> THEN TRUE
  ELSE IF Head(a) = Head(b) THEN StrLess(Tail(a), Tail(b))
  ELSE Ord(Head(a)) < Ord(Head(b))

\* sorted() with reverse=True.
RECURSIVE sorted_descending(_)
sorted_descending(S) ==
  IF S = {} THEN <<>>
  ELSE LET m == CHOOSE x \in S : \A y \in S \ {x} : StrLess(y, x)
       IN  <<m>> \o sorted_descending(S \ {m})

RECURSIVE sorted(_)
sorted(S) ==
  IF S = {} THEN <<>>
  ELSE LET m == CHOOSE x \in S : \A y \in S \ {x} : StrLess(x, y)
       IN  <<m>> \o sorted(S \ {m})

\* ------------------------------------------------------------------------
\* The aggregation, lines 127-192.

\* Line 149 with range(len(parts) - 1, -1, -1): the domain itself is tested
\* as well.
is_subdomain_with_itself(domain, higher) ==
  LET parts == Split(domain, ".")
  IN  \E i \in 0..(Len(parts) - 1) : Join(Drop(parts, i), ".") \in higher

\* Line 149: the suffixes parts[i:] for i = len(parts)-1 .. 1 (0-based).
is_subdomain(domain, higher) ==
  LET parts == Split(domain, ".")
  IN  \E i \in 1..(Len(parts) - 1) : Join(Drop(parts, i), ".") \in higher

\* Lines 129-156, one pass of the loop body over the lines from k on.
\* acc = [domains, higher]: the local set and self.higher_level_domains.
RECURSIVE BlockLoop(_, _, _)
BlockLoop(lines, k, acc) ==
  IF k > Len(lines) THEN acc
  ELSE LET n == normalize(lines[k])
       IN  IF ~n.ok THEN BlockLoop(lines, k + 1, acc)
           ELSE BlockLoop(lines, k + 1,
                  [domains |-> IF is_subdomain(n.domain, acc.higher)
                               THEN acc.domains
                               ELSE acc.domains \cup {n.domain},
                   higher  |-> acc.higher \cup {n.domain}])

\* convert_to_domain_list: the returned list and the set left in
\* self.higher_level_domains.
convert_to_domain_list(file_content, white_domains, higher) ==
  LET acc == BlockLoop(splitlines(file_content), 1,
                       [domains |-> {}, higher |-> higher])
  IN  [domains |-> sorted(acc.domains \ white_domains), higher |-> acc.higher]

convert_white_domains(white_content) ==
  LET lines == splitlines(white_content)
  IN  { normalize(lines[k]).domain :
          k \in { j \in 1..Len(lines) : normalize(lines[j]).ok } }

\* chunk_list: the slices _list[i : i + n] for i = 0, n, 2n, ...
RECURSIVE ChunksFrom(_, _, _)
ChunksFrom(list, i, n) ==
  IF i >= Len(list) THEN <<>>
  ELSE <<SubSeq(list, i + 1, IF i + n < Len(list) THEN i + n ELSE Len(list))>>
       \o ChunksFrom(list, i + n, n)

\* chunk_list that yields the full slices only.
chunk_list_full_only(list, n) ==
  LET all == ChunksFrom(list, 0, n)
  IN  SelectSeq(all, LAMBDA c : Len(c) = n)

\* chunk_list with range(1, len(_list), n).
chunk_list_from_one(list, n) == ChunksFrom(list, 1, n)

chunk_list(list, n) == ChunksFrom(list, 0, n)

\* ------------------------------------------------------------------------
\* The group and what its URLs can serve.

\* self.name_prefix of line 23, for one group.
name_prefix == "[AdBlock-g]"

\* The prefix of another group of the same account.
other_prefix == "[AdBlock-h]"

\* policy_prefix of lines 79 and 200 is name_prefix followed by this.
BlockAds == "Block Ads"

\* Positions in self.adlist_urls and self.whitelist_urls.
adlist_urls == {1, 2}

whitelist_urls == {1}

\* "# x\n"
TextComment == <<"#", " ", "x", "\n">>

\* "a\nb\nc\n"
TextPlain == <<"a", "\n", "b", "\n", "c", "\n">>

\* "0.0.0.0 b.a\n||D^\ne": hosts syntax, adblock syntax, no final newline
TextMixed ==
  <<"0", ".", "0", ".", "0", ".", "0", " ", "b", ".", "a", "\n",
    "|", "|", "D", "^", "\n", "e">>

\* "b\n"
TextWhite == <<"b", "\n">>

\* What each block list URL can return.
AdTexts == <<{TextComment, TextMixed}, {TextComment, TextPlain}>>

\* What each whitelist URL can return.
WhiteTexts == <<{<<>>, TextWhite}>>

\* ------------------------------------------------------------------------
\* The remote store (module cloudflare) as the calls of run() and delete()
\* see it.

\* Line 93 without the "+ 1".
ListNameFromZero(i) == [prefix |-> name_prefix, rest |-> i - 1]

\* Line 93: the name of the list of the i-th chunk, i counted from 1.
ListName(i) == [prefix |-> name_prefix, rest |-> i]

PolicyName(r) == [prefix |-> name_prefix, rest |-> r]

Ids == 1..MaxIds

RECURSIVE ById(_)
ById(S) ==
  IF S = {} THEN <<>>
  ELSE LET m == CHOOSE x \in S : \A y \in S : x.id <= y.id
       IN  <<m>> \o ById(S \ {m})

\* The identifiers of all but the first object.
IdsOfRest(seq) ==
  IF seq = <<>> THEN <<>> ELSE [i \in 1..(Len(seq) - 1) |-> seq[i + 1].id]

\* [l["id"] for l in cf_lists] of lines 70, 105 and 114
IdsOf(seq) == [i \in 1..Len(seq) |-> seq[i].id]

\* Line 63, summing over the first list only.
SumCountFirst(seq) == IF seq = <<>> THEN 0 ELSE Head(seq).count

RECURSIVE SumCount(_)
SumCount(seq) == IF seq = <<>> THEN 0 ELSE Head(seq).count + SumCount(Tail(seq))

\* cloudflare.get_lists(prefix): the lists whose name starts with prefix.
get_lists(store, prefix) == ById({ l \in store : l.name.prefix = prefix })

\* cloudflare.get_firewall_policies(prefix): the policies whose name starts
\* with prefix.
get_firewall_policies(store, prefix) ==
  ById({ p \in store : p.name.prefix = prefix })

\* The policies cloudflare.delete_gateway_policy(policy_prefix) removes:
\* those whose name starts with "<name_prefix> Block Ads".
MatchesPolicyPrefix(p) == p.name.prefix = name_prefix /\ p.name.rest = BlockAds

delete_gateway_policy(store) == { p \in store : ~MatchesPolicyPrefix(p) }

Smallest(S) == CHOOSE x \in S : \A y \in S : x <= y

\* cloudflare.create_list(name, chunk): the object the store answers with.
create_list(id, i, chunk) ==
  [id |-> id, name |-> ListName(i), count |-> Len(chunk), items |-> chunk]

\* cloudflare.create_gateway_policy(name, list_ids)
create_gateway_policy(id, list_ids) ==
  [id |-> id, name |-> PolicyName(BlockAds), lists |-> list_ids]

\* cloudflare.update_gateway_policy(name, policy_id, list_ids)
update_gateway_policy(store, policy_id, list_ids) ==
  { IF p.id = policy_id
    THEN [id |-> p.id, name |-> PolicyName(BlockAds), lists |-> list_ids]
    ELSE p : p \in store }

\* ------------------------------------------------------------------------
\* State.

VARIABLES
  lists,                 \* remote list objects
  policies,              \* remote policy objects
  higher_level_domains,  \* self.higher_level_domains
  pc,                    \* where run() or delete() is waiting; "idle" between
  outcome,               \* how the last run() or delete() ended
  texts,                 \* results of the fetches of the gather in progress
  file_content,          \* line 28
  white_content,         \* line 36
  domains,               \* line 45
  cf_lists,              \* lines 58 and 97, line 205
  cf_policies,           \* lines 65 and 99
  remote_count,          \* the sum of line 63, -1 before it is computed
  tasks,                 \* state of each task of the gather of line 88 / 97 / 210
  batch,                 \* what the tasks do: "delete", "create" or "none"
  created,               \* results of the finished create_list tasks
  issued,                \* the mutating calls made to cloudflare, in order
  late,                  \* mutations that took effect after the failure
  aggregated,            \* convert_to_domain_list was called in this run
  previous,              \* the list the run before rebuilt the store with
  line_no,               \* lines of line 129 the loop has gone through
  blocked,               \* the set "domains" of lines 128-153
  scanned,               \* what the loop body made of its last line
  returned,              \* the lists returned at line 165, one per call
  chunks                 \* chunk_list applied to the last returned list

vars ==
  <<lists, policies, higher_level_domains, pc, outcome, texts, file_content,
    white_content, domains, cf_lists, cf_policies, remote_count, tasks, batch,
    created, issued, late, aggregated, previous, line_no, blocked, scanned,
    returned, chunks>>

store    == <<lists, policies>>
locals   ==
  <<file_content, white_content, domains, cf_lists, cf_policies, remote_count>>
gathered == <<tasks, batch, created>>
loop     == <<line_no, blocked, scanned, returned, chunks>>

\* The domains "a", "b" and "c".
DA == <<"a">>
DB == <<"b">>
DC == <<"c">>

\* A list object of another group and a policy of another group.
OtherList ==
  [id |-> 0, name |-> [prefix |-> other_prefix, rest |-> 1], count |-> 1,
   items |-> <<DA>>]

OtherPolicy ==
  [id |-> 0, name |-> [prefix |-> other_prefix, rest |-> BlockAds],
   lists |-> <<0>>]

\* List objects the group may own when the program starts.
InitialLists ==
  { [id |-> 1, name |-> ListName(1), count |-> 2, items |-> <<DA, DB>>],
    [id |-> 2, name |-> ListName(2), count |-> 1, items |-> <<DC>>] }

\* Policies with the group's prefix the store may hold when the program starts.
InitialPolicies ==
  { [id |-> 1, name |-> PolicyName(BlockAds), lists |-> <<1, 2>>],
    [id |-> 2, name |-> PolicyName("Manual"), lists |-> <<>>],
    [id |-> 3, name |-> PolicyName("Manual 2"), lists |-> <<3>>] }

\* Before the loop body has run, and before chunk_list was called.
NoLine == [ok |-> FALSE, domain |-> <<>>, is_subdomain |-> FALSE]

NoChunks == [n |-> 0, out |-> <<>>]

Init ==
  /\ \E L \in SUBSET InitialLists : lists = L \cup {OtherList}
  /\ \E P \in SUBSET InitialPolicies : policies = P \cup {OtherPolicy}
  /\ higher_level_domains = {}
  /\ pc = "idle"
  /\ outcome = "none"
  /\ texts = <<>>
  /\ file_content = <<>>
  /\ white_content = <<>>
  /\ domains = <<>>
  /\ cf_lists = <<>>
  /\ cf_policies = <<>>
  /\ remote_count = -1
  /\ tasks = <<>>
  /\ batch = "none"
  /\ created = <<>>
  /\ issued = <<>>
  /\ late = 0
  /\ aggregated = FALSE
  /\ previous = <<>>
  /\ line_no = 0
  /\ blocked = {}
  /\ scanned = NoLine
  /\ returned = <<>>
  /\ chunks = NoChunks

\* ------------------------------------------------------------------------
\* Helpers of the actions.

Pending == { i \in DOMAIN tasks : tasks[i] = "pending" }

Repeat(call, n) == [i \in 1..n |-> call]

\* Identifiers no object and no reference holds: the store never hands out
\* an identifier twice, so the smallest unused one stands for a new one.
UsedListIds ==
  {l.id : l \in lists} \cup Range(IdsOf(cf_lists))
    \cup {created[i].id : i \in DOMAIN created}
    \cup UNION {Range(p.lists) : p \in policies}
    \cup UNION {Range(cf_policies[i].lists) : i \in DOMAIN cf_policies}

UsedPolicyIds == {p.id : p \in policies} \cup Range(IdsOf(cf_policies))

FreshListId == Smallest(Ids \ UsedListIds)

FreshPolicyId == Smallest(Ids \ UsedPolicyIds)

Chunks == chunk_list(domains, ChunkSize)

\* Line 48, with a test no list passes.
NoDomainsNever(found) == Len(found) < 0

\* Line 48.
NoDomains(found) == Len(found) = 0

\* Line 53, with >= in place of >.
TooManyAtLimit(found) == Len(found) >= DomainLimit

\* Line 53.
TooMany(found) == Len(found) > DomainLimit

\* Line 63, comparing the number of lists instead of the sum of their counts.
SameSizeByNumberOfLists(found, remote) == Len(found) = Len(remote)

\* Line 63.
SameSize(found, remote) == Len(found) = SumCount(remote)

\* Lines 102-110, creating a policy also when one is found.
PolicyBranchCreatesAgain(n) ==
  IF n <= 1 THEN "create_policy" ELSE "raise"

\* Lines 102, 107 and 110: what follows the second look at the policies.
PolicyBranch(n) ==
  IF n = 0 THEN "create_policy"
  ELSE IF n # 1 THEN "raise"
  ELSE "update_policy"

\* The run or the teardown ends: lines 50, 55, 74, 76, 119, 211, or an
\* exception that leaves run() or delete().
Ends(how) ==
  /\ pc' = "idle"
  /\ outcome' = how

\* Lines 84-88 and 206-210, with a loop that leaves out the last list.
SpawnDeletesButLast(next, calls, found) ==
  /\ pc' = next
  /\ tasks' = [i \in 1..(Len(found) - 1) |-> "pending"]
  /\ batch' = "delete"
  /\ created' = <<>>
  /\ issued' = issued \o calls \o Repeat("delete_list", Len(found) - 1)

\* Lines 84-88 and 206-210: one delete_list call per list, gathered.
SpawnDeletes(next, calls, found) ==
  /\ pc' = next
  /\ tasks' = [i \in 1..Len(found) |-> "pending"]
  /\ batch' = "delete"
  /\ created' = <<>>
  /\ issued' = issued \o calls \o Repeat("delete_list", Len(found))

\* Lines 91-97: one create_list call per chunk, gathered.
SpawnCreates(calls) ==
  /\ pc' = "create_lists"
  /\ tasks' = [i \in 1..Len(Chunks) |-> "pending"]
  /\ batch' = "create"
  /\ created' = <<>>
  /\ issued' = issued \o calls \o Repeat("create_list", Len(Chunks))

\* ------------------------------------------------------------------------
\* run(), lines 26-119.

StartRun ==
  /\ pc = "idle"
  /\ Pending = {}
  /\ pc' = "fetch_adlists"
  /\ outcome' = "none"
  /\ texts' = <<>>
  /\ file_content' = <<>>
  /\ white_content' = <<>>
  /\ domains' = <<>>
  /\ cf_lists' = <<>>
  /\ cf_policies' = <<>>
  /\ remote_count' = -1
  /\ tasks' = <<>>
  /\ batch' = "none"
  /\ created' = <<>>
  /\ issued' = <<>>
  /\ late' = 0
  /\ aggregated' = FALSE
  /\ previous' = IF outcome = "done" THEN domains ELSE <<>>
  /\ UNCHANGED <<store, higher_level_domains, loop>>

\* Lines 28-35: one download of the gather succeeds; with the last one the
\* texts are joined in the order of the URLs.
FetchAdlist(u, text) ==
  /\ pc = "fetch_adlists"
  /\ u \in adlist_urls \ DOMAIN texts
  /\ LET got == texts @@ (u :> text)
     IN  IF DOMAIN got = adlist_urls
         THEN /\ file_content' =
                   Concat([i \in 1..Cardinality(adlist_urls) |-> got[i]])
              /\ texts' = <<>>
              /\ pc' = "fetch_whitelists"
         ELSE /\ texts' = got
              /\ UNCHANGED <<file_content, pc>>
  /\ UNCHANGED <<store, higher_level_domains, outcome, white_content, domains,
                 cf_lists, cf_policies, remote_count, gathered, issued, late,
                 aggregated, previous, loop>>

\* Lines 36-43.
FetchWhitelist(u, text) ==
  /\ pc = "fetch_whitelists"
  /\ u \in whitelist_urls \ DOMAIN texts
  /\ LET got == texts @@ (u :> text)
     IN  IF DOMAIN got = whitelist_urls
         THEN /\ white_content' =
                   Concat([i \in 1..Cardinality(whitelist_urls) |-> got[i]])
              /\ texts' = <<>>
              /\ pc' = "convert"
         ELSE /\ texts' = got
              /\ UNCHANGED <<white_content, pc>>
  /\ UNCHANGED <<store, higher_level_domains, outcome, file_content, domains,
                 cf_lists, cf_policies, remote_count, gathered, issued, late,
                 aggregated, previous, loop>>

\* A failed download that is noted while the run goes on with an empty text.
FetchFailsRunGoesOn(u) ==
  /\ \/ pc = "fetch_adlists" /\ u \in adlist_urls \ DOMAIN texts
     \/ pc = "fetch_whitelists" /\ u \in whitelist_urls \ DOMAIN texts
  /\ outcome' = "FetchError"
  /\ LET got  == texts @@ (u :> <<>>)
         urls == IF pc = "fetch_adlists" THEN adlist_urls ELSE whitelist_urls
         all  == Concat([i \in 1..Cardinality(urls) |-> got[i]])
     IN  IF DOMAIN got = urls
         THEN /\ texts' = <<>>
              /\ IF pc = "fetch_adlists"
                 THEN /\ file_content' = all
                      /\ pc' = "fetch_whitelists"
                      /\ UNCHANGED white_content
                 ELSE /\ white_content' = all
                      /\ pc' = "convert"
                      /\ UNCHANGED file_content
         ELSE /\ texts' = got
              /\ UNCHANGED <<file_content, white_content, pc>>
  /\ UNCHANGED <<store, higher_level_domains, domains, cf_lists, cf_policies,
                 remote_count, gathered, issued, late, aggregated,
                 previous, loop>>

\* Lines 121-125 raise: gather hands the exception to run(), which has no
\* handler.
FetchFails(u) ==
  /\ \/ pc = "fetch_adlists" /\ u \in adlist_urls \ DOMAIN texts
     \/ pc = "fetch_whitelists" /\ u \in whitelist_urls \ DOMAIN texts
  /\ Ends("FetchError")
  /\ texts' = <<>>
  /\ UNCHANGED <<store, higher_level_domains, locals, gathered, issued, late,
                 aggregated, previous, loop>>

\* Lines 44-55.  The two texts are not read again.
Convert ==
  /\ pc = "convert"
  /\ LET white_domains == convert_white_domains(white_content)
         r == convert_to_domain_list(file_content, white_domains,
                                     higher_level_domains)
     IN  /\ domains' = r.domains
         /\ higher_level_domains' = r.higher
         /\ IF NoDomains(r.domains) THEN Ends("empty")
            ELSE IF TooMany(r.domains) THEN Ends("oversize")
            ELSE pc' = "get_lists" /\ UNCHANGED outcome
  /\ aggregated' = TRUE
  /\ file_content' = <<>>
  /\ white_content' = <<>>
  /\ UNCHANGED <<store, texts, cf_lists, cf_policies, remote_count, gathered,
                 issued, late, previous, loop>>

\* Lines 58-63.
GetLists ==
  /\ pc = "get_lists"
  /\ cf_lists' = get_lists(lists, name_prefix)
  /\ remote_count' = SumCount(cf_lists')
  /\ pc' = IF SameSize(domains, cf_lists')
           THEN "get_policies" ELSE "delete_policy"
  /\ UNCHANGED <<store, higher_level_domains, outcome, texts, file_content,
                 white_content, domains, cf_policies, gathered, issued, late,
                 aggregated, previous, loop>>

\* Lines 65-67 and 72-74.
GetPolicies ==
  /\ pc = "get_policies"
  /\ cf_policies' = get_firewall_policies(policies, name_prefix)
  /\ IF Len(cf_policies') = 0
     THEN pc' = "create_policy_same" /\ UNCHANGED outcome
     ELSE Ends("policy_exists")
  /\ UNCHANGED <<store, higher_level_domains, texts, file_content,
                 white_content, domains, cf_lists, remote_count, gathered,
                 issued, late, aggregated,
                 previous, loop>>

\* Lines 68-71 and 76.
CreatePolicySame ==
  /\ pc = "create_policy_same"
  /\ policies' =
       policies \cup {create_gateway_policy(FreshPolicyId, IdsOf(cf_lists))}
  /\ issued' = Append(issued, "create_gateway_policy")
  /\ Ends("policy_created")
  /\ UNCHANGED <<lists, higher_level_domains, texts, locals, gathered, late,
                 aggregated, previous, loop>>

\* Line 80 returns; lines 84-88 start the deletions, or with no list to
\* delete lines 91-97 start the creations.
DeletePolicy ==
  /\ pc = "delete_policy"
  /\ policies' = delete_gateway_policy(policies)
  /\ IF cf_lists = <<>>
     THEN SpawnCreates(<<"delete_gateway_policy">>)
     ELSE SpawnDeletes("delete_lists", <<"delete_gateway_policy">>, cf_lists)
  /\ UNCHANGED <<lists, higher_level_domains, outcome, texts, locals, late,
                 aggregated, previous, loop>>

\* Line 88 waiting for the first delete_list only: the creations of lines
\* 91-97 start as soon as one deletion has returned.
DeleteListAnyReturn(i) ==
  /\ pc = "delete_lists"
  /\ i \in Pending
  /\ lists' = { l \in lists : l.id # cf_lists[i].id }
  /\ SpawnCreates(<<>>)
  /\ UNCHANGED <<policies, higher_level_domains, outcome, texts, locals, late,
                 aggregated, previous, loop>>

\* One delete_list of line 88 returns; after the last one lines 91-97 start
\* the creations.
DeleteList(i) ==
  /\ pc = "delete_lists"
  /\ i \in Pending
  /\ lists' = { l \in lists : l.id # cf_lists[i].id }
  /\ IF Pending = {i}
     THEN SpawnCreates(<<>>)
     ELSE /\ tasks' = [tasks EXCEPT ![i] = "done"]
          /\ UNCHANGED <<pc, batch, created, issued>>
  /\ UNCHANGED <<policies, higher_level_domains, outcome, texts, locals, late,
                 aggregated, previous, loop>>

\* One create_list of line 97 returns; after the last one cf_lists is the
\* list of the results in the order of the chunks.
CreateList(i) ==
  /\ pc = "create_lists"
  /\ i \in Pending
  /\ LET new == create_list(FreshListId, i, Chunks[i])
         all == created @@ (i :> new)
     IN  /\ lists' = lists \cup {new}
         /\ IF Pending = {i}
            THEN /\ cf_lists' = [k \in 1..Len(Chunks) |-> all[k]]
                 /\ pc' = "requery"
                 /\ tasks' = <<>>
                 /\ batch' = "none"
                 /\ created' = <<>>
            ELSE /\ tasks' = [tasks EXCEPT ![i] = "done"]
                 /\ created' = all
                 /\ UNCHANGED <<pc, batch, cf_lists>>
  /\ UNCHANGED <<policies, higher_level_domains, outcome, texts, file_content,
                 white_content, domains, cf_policies, remote_count, issued,
                 late, aggregated,
                 previous, loop>>

\* Lines 99-110.
Requery ==
  /\ pc = "requery"
  /\ cf_policies' = get_firewall_policies(policies, name_prefix)
  /\ LET then == PolicyBranch(Len(cf_policies'))
     IN  IF then = "raise"
         THEN Ends("PolicyCardinalityFault")
         ELSE pc' = then /\ UNCHANGED outcome
  /\ UNCHANGED <<store, higher_level_domains, texts, file_content,
                 white_content, domains, cf_lists, remote_count, gathered,
                 issued, late, aggregated,
                 previous, loop>>

\* Lines 103-106 and 119.
CreatePolicy ==
  /\ pc = "create_policy"
  /\ policies' =
       policies \cup {create_gateway_policy(FreshPolicyId, IdsOf(cf_lists))}
  /\ issued' = Append(issued, "create_gateway_policy")
  /\ Ends("done")
  /\ UNCHANGED <<lists, higher_level_domains, texts, locals, gathered, late,
                 aggregated, previous, loop>>

\* Lines 111-119.
UpdatePolicy ==
  /\ pc = "update_policy"
  /\ policies' =
       update_gateway_policy(policies, cf_policies[1].id, IdsOf(cf_lists))
  /\ issued' = Append(issued, "update_gateway_policy")
  /\ Ends("done")
  /\ UNCHANGED <<lists, higher_level_domains, texts, locals, gathered, late,
                 aggregated, previous, loop>>

\* ------------------------------------------------------------------------
\* delete(), lines 198-211.

StartDelete ==
  /\ pc = "idle"
  /\ Pending = {}
  /\ pc' = "teardown_policy"
  /\ outcome' = "none"
  /\ texts' = <<>>
  /\ file_content' = <<>>
  /\ white_content' = <<>>
  /\ domains' = <<>>
  /\ cf_lists' = <<>>
  /\ cf_policies' = <<>>
  /\ remote_count' = -1
  /\ tasks' = <<>>
  /\ batch' = "none"
  /\ created' = <<>>
  /\ issued' = <<>>
  /\ late' = 0
  /\ aggregated' = FALSE
  /\ previous' = <<>>
  /\ UNCHANGED <<store, higher_level_domains, loop>>

\* Lines 200-202.
TeardownPolicy ==
  /\ pc = "teardown_policy"
  /\ policies' = delete_gateway_policy(policies)
  /\ issued' = Append(issued, "delete_gateway_policy")
  /\ pc' = "teardown_get_lists"
  /\ UNCHANGED <<lists, higher_level_domains, outcome, texts, locals, gathered,
                 late, aggregated,
                 previous, loop>>

\* Lines 205-210; with no list the gather is empty and line 211 follows.
TeardownGetLists ==
  /\ pc = "teardown_get_lists"
  /\ cf_lists' = get_lists(lists, name_prefix)
  /\ IF cf_lists' = <<>>
     THEN Ends("deleted") /\ UNCHANGED <<gathered, issued>>
     ELSE SpawnDeletes("teardown_lists", <<>>, cf_lists') /\ UNCHANGED outcome
  /\ UNCHANGED <<store, higher_level_domains, texts, file_content,
                 white_content, domains, cf_policies, remote_count, late,
                 aggregated, previous, loop>>

\* One delete_list of line 210 returns; after the last one line 211.
TeardownList(i) ==
  /\ pc = "teardown_lists"
  /\ i \in Pending
  /\ lists' = { l \in lists : l.id # cf_lists[i].id }
  /\ IF Pending = {i}
     THEN /\ Ends("deleted")
          /\ tasks' = <<>>
          /\ batch' = "none"
     ELSE /\ tasks' = [tasks EXCEPT ![i] = "done"]
          /\ UNCHANGED <<pc, outcome, batch>>
  /\ UNCHANGED <<policies, higher_level_domains, texts, locals, created,
                 issued, late, aggregated,
                 previous, loop>>

\* ------------------------------------------------------------------------
\* Failures of the remote store, and the tasks a failed gather leaves behind.

\* A call to cloudflare raises while run() or delete() awaits it alone
\* (lines 58, 65, 69, 80, 99, 104, 117, 201, 205): the call changes nothing
\* and the exception leaves run() or delete().
CallFails ==
  /\ pc \in {"get_lists", "get_policies", "create_policy_same",
             "delete_policy", "requery", "create_policy", "update_policy",
             "teardown_policy", "teardown_get_lists"}
  /\ issued' =
       CASE pc \in {"create_policy_same", "create_policy"}
              -> Append(issued, "create_gateway_policy")
         [] pc \in {"delete_policy", "teardown_policy"}
              -> Append(issued, "delete_gateway_policy")
         [] pc = "update_policy" -> Append(issued, "update_gateway_policy")
         [] OTHER -> issued
  /\ Ends("RemoteError")
  /\ UNCHANGED <<store, higher_level_domains, texts, locals, gathered, late,
                 aggregated, previous, loop>>

\* One task of the gather of line 88, 97 or 210 raises: gather hands the
\* first exception to its awaiter at once and does not cancel the other
\* tasks, which stay pending while the exception leaves run() or delete().
TaskFails(i) ==
  /\ pc \in {"delete_lists", "create_lists", "teardown_lists"}
  /\ i \in Pending
  /\ tasks' = [tasks EXCEPT ![i] = "failed"]
  /\ Ends("RemoteError")
  /\ UNCHANGED <<store, higher_level_domains, texts, locals, batch, created,
                 issued, late, aggregated,
                 previous, loop>>

\* A delete_list task that was left pending completes.
LateDeleteList(i) ==
  /\ pc = "idle"
  /\ batch = "delete"
  /\ i \in Pending
  /\ lists' = { l \in lists : l.id # cf_lists[i].id }
  /\ tasks' = [tasks EXCEPT ![i] = "done"]
  /\ late' = late + 1
  /\ UNCHANGED <<policies, higher_level_domains, pc, outcome, texts, locals,
                 batch, created, issued, aggregated,
                 previous, loop>>

\* A create_list task that was left pending completes.
LateCreateList(i) ==
  /\ pc = "idle"
  /\ batch = "create"
  /\ i \in Pending
  /\ LET new == create_list(FreshListId, i, Chunks[i])
     IN  /\ lists' = lists \cup {new}
         /\ created' = created @@ (i :> new)
  /\ tasks' = [tasks EXCEPT ![i] = "done"]
  /\ late' = late + 1
  /\ UNCHANGED <<policies, higher_level_domains, pc, outcome, texts, locals,
                 batch, issued, aggregated,
                 previous, loop>>

\* The event loop closes: the tasks still pending are cancelled.
CancelPending ==
  /\ pc = "idle"
  /\ Pending # {}
  /\ tasks' = [i \in DOMAIN tasks |->
                 IF tasks[i] = "pending" THEN "cancelled" ELSE tasks[i]]
  /\ UNCHANGED <<store, higher_level_domains, pc, outcome, texts, locals,
                 batch, created, issued, late, aggregated,
                 previous, loop>>

\* ------------------------------------------------------------------------

Next ==
  \/ StartRun
  \/ \E u \in adlist_urls : \E t \in AdTexts[u] : FetchAdlist(u, t)
  \/ \E u \in whitelist_urls : \E t \in WhiteTexts[u] : FetchWhitelist(u, t)
  \/ \E u \in adlist_urls \cup whitelist_urls : FetchFails(u)
  \/ Convert
  \/ GetLists
  \/ GetPolicies
  \/ CreatePolicySame
  \/ DeletePolicy
  \/ \E i \in DOMAIN tasks : DeleteList(i)
  \/ \E i \in DOMAIN tasks : CreateList(i)
  \/ Requery
  \/ CreatePolicy
  \/ UpdatePolicy
  \/ StartDelete
  \/ TeardownPolicy
  \/ TeardownGetLists
  \/ \E i \in DOMAIN tasks : TeardownList(i)
  \/ CallFails
  \/ \E i \in DOMAIN tasks : TaskFails(i)
  \/ \E i \in DOMAIN tasks : LateDeleteList(i)
  \/ \E i \in DOMAIN tasks : LateCreateList(i)
  \/ CancelPending

Spec == Init /\ [][Next]_vars

\* ------------------------------------------------------------------------
\* convert_to_domain_list and chunk_list called on one App object with a body
\* and a whitelist text of the caller's choice; the loop of lines 129-156
\* goes line by line.

\* "a", "b.a", "d.c.b.a", "B.A", "1.2.3.4", "#a"
InputLines ==
  { <<"a">>,
    <<"b", ".", "a">>,
    <<"d", ".", "c", ".", "b", ".", "a">>,
    <<"B", ".", "A">>,
    <<"1", ".", "2", ".", "3", ".", "4">>,
    <<"#", "a">> }

\* The bodies: up to MaxLines lines, each ended by a line feed.
Bodies ==
  { Concat([i \in 1..Len(ls) |-> ls[i] \o <<"\n">>]) :
      ls \in UNION { [1..n -> InputLines] : n \in 0..MaxLines } }

\* The whitelist texts: "" and "a\n".
WhiteBodies == { <<>>, <<"a", "\n">> }

reconciler ==
  <<lists, policies, outcome, texts, domains, cf_lists, cf_policies,
    remote_count, tasks, batch, created, issued, late, aggregated, previous>>

\* A new App object (line 24) and the arguments of the calls.
InitConvert ==
  /\ file_content \in Bodies
  /\ white_content \in WhiteBodies
  /\ higher_level_domains = {}
  /\ pc = "convert_ready"
  /\ line_no = 0
  /\ blocked = {}
  /\ scanned = NoLine
  /\ returned = <<>>
  /\ chunks = NoChunks
  /\ lists = {}
  /\ policies = {}
  /\ outcome = "none"
  /\ texts = <<>>
  /\ domains = <<>>
  /\ cf_lists = <<>>
  /\ cf_policies = <<>>
  /\ remote_count = -1
  /\ tasks = <<>>
  /\ batch = "none"
  /\ created = <<>>
  /\ issued = <<>>
  /\ late = 0
  /\ aggregated = FALSE
  /\ previous = <<>>

\* Line 129: the lines the loop goes through.
BodyLines == splitlines(file_content)

\* Lines 127-128: a call starts; self.higher_level_domains is as the call
\* before left it.
ConvertCall ==
  /\ pc \in {"convert_ready", "convert_returned"}
  /\ Len(returned) < MaxCalls
  /\ pc' = "convert_loop"
  /\ line_no' = 0
  /\ blocked' = {}
  /\ scanned' = NoLine
  /\ chunks' = NoChunks
  /\ UNCHANGED <<file_content, white_content, higher_level_domains, returned,
                 reconciler>>

\* Lines 129-156: the loop body on the next line.
ConvertLine ==
  /\ pc = "convert_loop"
  /\ line_no < Len(BodyLines)
  /\ line_no' = line_no + 1
  /\ LET n == normalize(BodyLines[line_no + 1])
     IN  IF ~n.ok
         THEN /\ scanned' = [ok |-> FALSE, domain |-> <<>>,
                             is_subdomain |-> FALSE]
              /\ UNCHANGED <<blocked, higher_level_domains>>
         ELSE LET sub == is_subdomain(n.domain, higher_level_domains)
              IN  /\ scanned' = [ok |-> TRUE, domain |-> n.domain,
                                 is_subdomain |-> sub]
                  /\ blocked' = IF sub THEN blocked
                                ELSE blocked \cup {n.domain}
                  /\ higher_level_domains' =
                       higher_level_domains \cup {n.domain}
  /\ UNCHANGED <<file_content, white_content, pc, returned, chunks,
                 reconciler>>

\* Lines 158-165, with the whitelist set of line 45.
ConvertReturn ==
  /\ pc = "convert_loop"
  /\ line_no = Len(BodyLines)
  /\ returned' =
       Append(returned, sorted(blocked \ convert_white_domains(white_content)))
  /\ pc' = "convert_returned"
  /\ UNCHANGED <<file_content, white_content, higher_level_domains, line_no,
                 blocked, scanned, chunks, reconciler>>

\* Lines 194-196 on the list just returned, as at line 92.
ChunkList(n) ==
  /\ pc = "convert_returned"
  /\ chunks = NoChunks
  /\ chunks' = [n |-> n, out |-> chunk_list(returned[Len(returned)], n)]
  /\ UNCHANGED <<file_content, white_content, higher_level_domains, pc,
                 line_no, blocked, scanned, returned, reconciler>>

NextConvert ==
  \/ ConvertCall
  \/ ConvertLine
  \/ ConvertReturn
  \/ \E n \in 1..MaxChunk : ChunkList(n)

SpecConvert == InitConvert /\ [][NextConvert]_vars

\* ------------------------------------------------------------------------
\* Properties.

GroupLists == { l \in lists : l.name.prefix = name_prefix }

GroupPolicies == { p \in policies : p.name.prefix = name_prefix }

StoredDomains == UNION { Range(l.items) : l \in GroupLists }

Count(call) == Cardinality({ k \in 1..Len(issued) : issued[k] = call })

RunCompleted ==
  pc = "idle" /\ outcome \in {"done", "policy_exists", "policy_created"}

Rebuilt == pc = "idle" /\ outcome = "done"

\* C1 as stated: after a run that completes without error the domains stored
\* under the prefix are exactly the computed list, whatever the store held.
C1_StoredMirrorsComputed ==
  RunCompleted => StoredDomains = Range(domains)

\* C1 amended: after a run that completes without error the counts of the
\* lists under the prefix sum to the length of the computed list; after a
\* rebuild the lists hold exactly the computed list, in order, and after a
\* run that found the sizes equal the lists are the ones it found.
C1_MirrorsAfterRebuild ==
  /\ RunCompleted =>
       SumCount(get_lists(lists, name_prefix)) = Len(domains)
  /\ Rebuilt =>
       /\ GroupLists = Range(cf_lists)
       /\ Concat([i \in 1..Len(cf_lists) |-> cf_lists[i].items]) = domains
  /\ RunCompleted /\ outcome # "done" =>
       get_lists(lists, name_prefix) = cf_lists

C1_RebuildCompleted == Rebuilt /\ Len(cf_lists) > 1

AtMostOnePolicy == Cardinality(GroupPolicies) <= 1

\* C2: no step of run() or delete() takes a store with at most one policy
\* under the prefix to a store with more than one, so from a store with at
\* most one policy every state of every sequence of runs and teardowns has at
\* most one.
C2_AtMostOnePolicy == [][AtMostOnePolicy => AtMostOnePolicy']_vars

C2_PolicyCreated ==
  /\ Rebuilt
  /\ Count("create_gateway_policy") = 1
  /\ Cardinality(GroupPolicies) = 1

\* C3 as stated: a run that sees more than one policy under the prefix ends
\* with the policy cardinality fault and changes nothing afterwards.
C3_FaultOnManyPolicies ==
  Len(cf_policies) > 1 =>
    pc = "idle" /\ outcome = "PolicyCardinalityFault" /\ late = 0

\* C4 as stated: after the first failed remote operation of a run (which has
\* looked at the remote lists, so remote_count is set) the failure has left
\* run() and no mutation of that run takes effect, the other tasks of the
\* batch included.
C4_NothingAfterFirstFailure ==
  outcome = "RemoteError" /\ remote_count # -1 => pc = "idle" /\ late = 0

\* C5: a run that found a different size and ends without a failure leaves
\* under the prefix exactly the lists it created, one per chunk, the i-th
\* named "<prefix> <i>" and holding the i-th chunk, and exactly one policy,
\* which refers to exactly these lists.
C5_Rebuild ==
  Rebuilt =>
    /\ remote_count # Len(domains)
    /\ Len(cf_lists) * ChunkSize >= Len(domains)
    /\ (Len(cf_lists) - 1) * ChunkSize < Len(domains)
    /\ Count("create_list") = Len(cf_lists)
    /\ GroupLists = Range(cf_lists)
    /\ \A i \in 1..Len(cf_lists) :
         /\ cf_lists[i].name.prefix = name_prefix
         /\ cf_lists[i].name.rest = i
         /\ cf_lists[i].items =
              SubSeq(domains, (i - 1) * ChunkSize + 1,
                     IF i * ChunkSize < Len(domains)
                     THEN i * ChunkSize ELSE Len(domains))
         /\ \A j \in 1..Len(cf_lists) : cf_lists[i].id = cf_lists[j].id => i = j
    /\ Count("delete_gateway_policy") = 1
    /\ \E p \in GroupPolicies :
         /\ GroupPolicies = {p}
         /\ p.name.rest = BlockAds
         /\ p.lists = [i \in 1..Len(cf_lists) |-> cf_lists[i].id]

C5_RebuiltWithPartialChunk ==
  Rebuilt /\ Len(cf_lists) >= 2 /\ Len(domains) % ChunkSize # 0

\* C6: a run that finds the summed count equal to the length of the computed
\* list and exactly one policy under the prefix makes no create, delete or
\* update call.
C6_NoCallWhenSameSizeAndOnePolicy ==
  remote_count = Len(domains) /\ Len(cf_policies) = 1 => issued = <<>>

C6_SameSizeOnePolicy ==
  pc = "idle" /\ remote_count = Len(domains) /\ Len(cf_policies) = 1

\* C7: a run that finds the summed count equal to the length of the computed
\* list creates and deletes no list; finding no policy it makes one
\* create_gateway_policy call, and the policy created refers to all the
\* lists under the prefix; finding a policy it creates none.
C7_SameSizeTouchesPolicyOnly ==
  remote_count = Len(domains) =>
    /\ Count("create_list") = 0
    /\ Count("delete_list") = 0
    /\ get_lists(lists, name_prefix) = cf_lists
    /\ Len(cf_policies) > 0 => Count("create_gateway_policy") = 0
    /\ pc = "idle" /\ outcome = "policy_created" =>
         /\ Len(cf_policies) = 0
         /\ issued = <<"create_gateway_policy">>
         /\ \E p \in GroupPolicies :
              /\ GroupPolicies = {p}
              /\ p.lists = [i \in 1..Len(cf_lists) |-> cf_lists[i].id]
              /\ Range(p.lists) = { l.id : l \in GroupLists }

C7_PolicyCreatedForSameSize ==
  pc = "idle" /\ outcome = "policy_created" /\ Len(cf_lists) >= 2

\* C8: with an empty computed list the run ends at once and has made no
\* mutating call.
C8_EmptyListNoCall ==
  aggregated /\ Len(domains) = 0 =>
    pc = "idle" /\ outcome = "empty" /\ issued = <<>>

C8_EmptyWithRemoteLists ==
  pc = "idle" /\ outcome = "empty" /\ GroupLists # {} /\ GroupPolicies # {}

\* C9: with more computed domains than the ceiling the run ends at once and
\* has made no mutating call; with exactly as many as the ceiling it does not
\* end for that reason.
C9_CeilingIsInclusive ==
  /\ aggregated /\ Len(domains) > DomainLimit =>
       pc = "idle" /\ outcome = "oversize" /\ issued = <<>>
  /\ aggregated /\ Len(domains) = DomainLimit =>
       outcome # "oversize" /\ (pc = "idle" => outcome # "none")

C9_OverCeilingEnded ==
  pc = "idle" /\ outcome = "oversize" /\ Len(domains) = DomainLimit + 1

\* C10: when a download fails the run ends with the error, the aggregation
\* has not been called and no mutating call has been made.
C10_FetchErrorEndsRun ==
  outcome = "FetchError" =>
    pc = "idle" /\ ~aggregated /\ issued = <<>>

C10_FetchFailed ==
  outcome = "FetchError" /\ pc = "idle" /\ GroupLists # {}

\* C16: when delete() has ended without a failure, the store holds no policy
\* named "<prefix> Block Ads" and no list under the prefix, whatever it held
\* before.
C16_TeardownLeavesNothing ==
  pc = "idle" /\ outcome = "deleted" =>
    /\ GroupLists = {}
    /\ { p \in GroupPolicies : p.name.rest = BlockAds } = {}

C16_TornDown ==
  /\ pc = "idle"
  /\ outcome = "deleted"
  /\ Len(cf_lists) >= 2
  /\ Count("delete_list") = Len(cf_lists)

\* The ranks of the calls of a rebuild: policy deletion, list deletions,
\* list creations, policy creation or update.
PhaseOf(call) ==
  CASE call = "delete_gateway_policy" -> 1
    [] call = "delete_list" -> 2
    [] call = "create_list" -> 3
    [] OTHER -> 4

Rebuilding ==
  pc \in {"delete_lists", "create_lists", "requery", "create_policy",
          "update_policy"}

C19_SecondRunChangesNothing ==
  previous # <<>> /\ aggregated /\ domains = previous =>
    /\ issued = <<>>
    /\ pc \in {"get_lists", "get_policies", "idle"}
    /\ pc = "idle" => outcome \in {"policy_exists", "RemoteError"}

C19_SecondRunEnded ==
  /\ previous # <<>>
  /\ domains = previous
  /\ pc = "idle"
  /\ outcome = "policy_exists"
  /\ Len(cf_lists) >= 2

\* ------------------------------------------------------------------------
\* Properties of the calls of SpecConvert.

LastReturned == returned[Len(returned)]

WhiteSet == convert_white_domains(white_content)

\* h is an ancestor of d: a proper suffix of d that starts after a dot.
Ancestor(h, d) ==
  /\ h # <<>>
  /\ Len(h) < Len(d)
  /\ d[Len(d) - Len(h)] = "."
  /\ SubSeq(d, Len(d) - Len(h) + 1, Len(d)) = h

\* The domains accepted from the first k lines of the body.
AcceptedUpTo(k) ==
  { normalize(BodyLines[j]).domain :
      j \in { i \in 1..k : normalize(BodyLines[i]).ok } }

\* What C11 says of one step of the loop that accepts its line.
AddsIffNoEarlierAncestor ==
  line_no' = line_no + 1 /\ scanned'.ok =>
    /\ scanned'.domain \in higher_level_domains'
    /\ blocked \subseteq blocked'
    /\ scanned'.domain \in blocked' \ blocked => ~scanned'.is_subdomain
    /\ ~scanned'.is_subdomain <=>
         ~\E h \in AcceptedUpTo(line_no) : Ancestor(h, scanned'.domain)

\* C11 as stated: every step of the loop that accepts a line puts the
\* domain into self.higher_level_domains, removes nothing from the set of
\* blocked domains, and adds the domain to it if and only if no ancestor of
\* the domain was accepted on an earlier line of the body.
C11_AddsIffNoEarlierAncestor == [][AddsIffNoEarlierAncestor]_vars

\* The same in the first call on an App object only.
FirstCallAddsIffNoEarlierAncestor ==
  [][returned = <<>> => AddsIffNoEarlierAncestor]_vars

\* C12 as stated: the second call with the same body and whitelist returns
\* the list the first call returned.
C12_SecondCallSameList ==
  Len(returned) >= 2 => returned[2] = returned[1]

\* C13: the list a call returns is strictly ascending (so without
\* duplicates), its entries are the blocked domains that are not in the
\* whitelist set, and none of them is in the whitelist set.
C13_ReturnedSortedWithoutWhite ==
  pc = "convert_returned" =>
    /\ \A i \in 1..Len(LastReturned) : \A j \in 1..Len(LastReturned) :
         i < j => StrLess(LastReturned[i], LastReturned[j])
    /\ Range(LastReturned) = blocked \ WhiteSet
    /\ Range(LastReturned) \cap WhiteSet = {}

C13_ReturnedWithoutWhitelisted ==
  /\ pc = "convert_returned"
  /\ Len(LastReturned) >= 2
  /\ blocked \cap WhiteSet # {}

\* C14: chunk_list of a list of length L with chunk size n >= 1 yields
\* ceil(L/n) chunks, each of 1 to n entries and all but the last of n, whose
\* concatenation is the list; the empty list yields no chunk.
C14_ChunksPartitionList ==
  chunks.n # 0 =>
    LET L   == Len(LastReturned)
        n   == chunks.n
        out == chunks.out
    IN  /\ Len(out) = (L + n - 1) \div n
        /\ \A i \in 1..Len(out) : Len(out[i]) \in 1..n
        /\ \A i \in 1..(Len(out) - 1) : Len(out[i]) = n
        /\ Concat(out) = LastReturned
        /\ L = 0 => out = <<>>

C14_LastChunkSmaller ==
  /\ chunks.n = 2
  /\ Len(LastReturned) = 3
  /\ Len(chunks.out) = 2

\* The grammar label(.label)*: letters, digits, hyphens and dots, no dot
\* and no hyphen at either end or next to a dot.
MatchesGrammar(line) ==
  /\ line # <<>>
  /\ \A i \in 1..Len(line) : IsAlnum(line[i]) \/ line[i] \in {"-", "."}
  /\ IsAlnum(line[1])
  /\ IsAlnum(line[Len(line)])
  /\ \A i \in 1..(Len(line) - 1) :
       /\ line[i] = "." => IsAlnum(line[i + 1])
       /\ line[i + 1] = "." => IsAlnum(line[i])

\* The line the loop body has just gone through.
ScannedLine == BodyLines[line_no]

\* C15 as stated: every line that matches the grammar is accepted and gives
\* its lower-case form.
C15_GrammarLineAccepted ==
  line_no >= 1 /\ MatchesGrammar(ScannedLine) =>
    scanned.ok /\ scanned.domain = Lower(ScannedLine)

\* C15 amended: every line that matches the grammar, is not four groups of
\* one to three digits and has no label of 64 characters or more is accepted
\* and gives its lower-case form; a line of four groups of one to three
\* digits is skipped.
C15_GrammarLineNotAddress ==
  line_no >= 1 =>
    /\ /\ MatchesGrammar(ScannedLine)
       /\ ~ip_pattern_match(ScannedLine)
       /\ \A l \in Range(Split(ScannedLine, ".")) : Len(l) < IdnaLabelLimit
       => scanned.ok /\ scanned.domain = Lower(ScannedLine)
    /\ ip_pattern_match(ScannedLine) => ~scanned.ok

C15_UpperCaseLineAccepted ==
  /\ line_no >= 1
  /\ MatchesGrammar(ScannedLine)
  /\ scanned.ok
  /\ scanned.domain # ScannedLine

\* C18 as stated: a step of the loop that accepts a line finds the domain a
\* subdomain if and only if one of its proper suffixes of two or more labels
\* is in self.higher_level_domains.
C18_TestsSuffixesOfTwoLabels ==
  [][line_no' = line_no + 1 /\ scanned'.ok =>
       (scanned'.is_subdomain <=>
          \E h \in higher_level_domains :
            Ancestor(h, scanned'.domain) /\ "." \in Range(h))]_vars

\* C18 amended: a step of the loop that accepts a line finds the domain a
\* subdomain if and only if one of its proper suffixes, the single-label one
\* included and the domain itself excluded, is in self.higher_level_domains.
C18_TestsProperSuffixes ==
  [][line_no' = line_no + 1 /\ scanned'.ok =>
       (scanned'.is_subdomain <=>
          \E h \in higher_level_domains : Ancestor(h, scanned'.domain))]_vars

C18_SuppressedBySingleLabel ==
  /\ scanned.ok
  /\ scanned.is_subdomain
  /\ Len(Split(scanned.domain, ".")) = 4
  /\ higher_level_domains = {<<"a">>, scanned.domain}

\* d is an entry of the list or has an ancestor that is one.
Covered(d, list) ==
  d \in Range(list) \/ \E e \in Range(list) : Ancestor(e, d)

\* C20 as stated: every domain accepted from the body that is not in the
\* whitelist set is an entry of the returned list or has an ancestor that
\* is one.
C20_AcceptedIsCovered ==
  pc = "convert_returned" =>
    \A d \in AcceptedUpTo(Len(BodyLines)) \ WhiteSet :
      Covered(d, LastReturned)

\* The same in the first call on an App object and with an empty whitelist.
FirstCallNoWhitelistCovers ==
  pc = "convert_returned" /\ Len(returned) = 1 /\ WhiteSet = {} =>
    \A d \in AcceptedUpTo(Len(BodyLines)) : Covered(d, LastReturned)

\* The loop of ConvertLine and the operator used by run() agree.
LoopAgreesWithOperator ==
  pc = "convert_returned" /\ Len(returned) = 1 =>
    LET r == convert_to_domain_list(file_content, WhiteSet, {})
    IN  r.domains = LastReturned /\ r.higher = higher_level_domains

====
